---- MODULE Spec2Model ----
(***************************************************************************)
(* Beacon-chain indexer core of eth-analysis-backend: the sync loop        *)
(* (sync_beacon_states), the slot synchronizer (sync_slot_by_state_root),  *)
(* the ancestor finder (find_last_matching_slot), the rollback executor    *)
(* (rollback_slots / rollback_slot), the slot stream and the persistence   *)
(* gateway, over a live chain that can advance and reorg.                  *)
(*                                                                         *)
(* Option<T> values are sets with at most one element: None == {} and      *)
(* Some(x) == {x}.                                                         *)
(***************************************************************************)
EXTENDS Integers, Sequences, FiniteSets, TLC

VARIABLES
    db,           \* committed tables: states, blocks, balances, issuances
    tx,           \* Some(tables as seen inside the open transaction) or None
    live,         \* live chain: per slot 0 = missed proposal, >0 = block variant
    head,         \* current slot of the live chain
    historic,     \* historic part of the slot stream still to be yielded
    channel,      \* mpsc channel written by the SSE task
    last_slot,    \* last_slot of the SSE task
    slots_queues, \* VecDeque of the sync loop
    pc,           \* position of the running process
    slot,         \* slot popped by the inner loop / argument of the call
    state_root,   \* on_chain_state_root handed to the synchronizer
    sync_data,    \* sync_lag, header/block tuple and balances gathered so far
    candidate,    \* candidate_slot of the ancestor finder
    rb,           \* running call: kind, slot, caller ("loop" or "api")
    deleted,      \* tables deleted so far inside the rollback transaction
    reorgs,       \* number of reorgs the live chain went through
    job,          \* running job (balances backfill or heal): pc and arguments
    rows,         \* rows the job selected and has not yet handled
    progress,     \* work done counted by the job's Progress
    job_tracker,  \* slot kept by the heal job's JobProgress, or None
    sse_task,     \* "running" while the SSE task reads head events, else "ended"
    call          \* conversion called on Slot: function, argument, result

vars == <<db, tx, live, head, historic, channel, last_slot, slots_queues, pc,
          slot, state_root, sync_data, candidate, rb, deleted, reorgs,
          job, rows, progress, job_tracker, sse_task, call>>

(* ------------------------------ bounds --------------------------------- *)
MaxSlot == 3
MaxVersion == 2
MaxReorgs == 2
MaxChannel == 2
MaxBelow == 2
LagHead == 27
ShapellaSpan == 2
(* width of Slot's signed integer, scaled down from 32 bits *)
SlotBits == 4

(* first slots of the windows the balances backfill is run on: genesis,    *)
(* and just below the first epoch, hour and day boundary after genesis     *)
BackfillBases == {0, 31, 298, 3598}

Slots == 0..MaxSlot
Versions == 0..MaxVersion

(* ---------------------------- constants -------------------------------- *)
GENESIS_TIMESTAMP == 1606824023
SECONDS_PER_SLOT == 12
SHAPELLA_SLOT == 6209536
BLOCK_LAG_LIMIT == 300
GENESIS_PARENT_ROOT == <<"block", <<>>>>

None == {}
Some(x) == {x}

MaxOf(S) == CHOOSE m \in S : \A n \in S : n <= m

RECURSIVE SumSeq(_)
SumSeq(s) == IF s = <<>> THEN 0 ELSE Head(s) + SumSeq(Tail(s))

(* Slot::date_time *)
DateTime(s) == GENESIS_TIMESTAMP + s * SECONDS_PER_SLOT

(* ------------------------- the live beacon node ------------------------ *)
(* A root commits to the whole history below it: it is the sequence of the *)
(* block variants of slots 0..s, so a reorg at depth d changes every root  *)
(* at or above d.                                                          *)
Prefix(chain, s) == [i \in 1..(s + 1) |-> chain[i - 1]]
StateRootAt(chain, s) == <<"state", Prefix(chain, s)>>
BlockRootAt(chain, s) == <<"block", Prefix(chain, s)>>
SlotOfRoot(root) == Len(root[2]) - 1
VersionOfRoot(root) == root[2][Len(root[2])]

ParentRootAt(chain, s) ==
    LET prev == {t \in 0..(s - 1) : chain[t] # 0}
    IN  IF prev = {} THEN GENESIS_PARENT_ROOT ELSE BlockRootAt(chain, MaxOf(prev))

HeaderAt(chain, s) ==
    [root |-> BlockRootAt(chain, s),
     slot |-> s,
     parent_root |-> ParentRootAt(chain, s),
     state_root |-> StateRootAt(chain, s)]

(* deposits, withdrawals and execution payload carried by a block *)
DepositsOf(block_root) ==
    IF VersionOfRoot(block_root) = 1 THEN <<32>> ELSE <<32, 1>>
(* the execution payload carries withdrawals from SHAPELLA_SLOT on only *)
WithdrawalsOf(block_root, s) ==
    IF s < SHAPELLA_SLOT \/ VersionOfRoot(block_root) = 1 THEN None
    ELSE Some(<<2>>)
BlockHashOf(block_root) ==
    IF VersionOfRoot(block_root) = 1 THEN None ELSE Some(<<"hash", block_root[2]>>)
BalancesOf(root) == <<32, 31 + VersionOfRoot(root)>>

NodeGetStateRootBySlot(s) ==
    IF s \in 0..head THEN Some(StateRootAt(live, s)) ELSE None

NodeGetHeaderBySlot(s) ==
    IF s \in 0..head /\ live[s] # 0 THEN Some(HeaderAt(live, s)) ELSE None

NodeGetBlockByBlockRoot(header) ==
    [slot |-> header.slot,
     parent_root |-> header.parent_root,
     state_root |-> header.state_root,
     block_hash |-> BlockHashOf(header.root),
     deposits |-> DepositsOf(header.root),
     withdrawals |-> WithdrawalsOf(header.root, header.slot)]

NodeGetLastHeader ==
    HeaderAt(live, MaxOf({t \in 0..head : live[t] # 0}))

NodeGetValidatorBalances(root) == Some(BalancesOf(root))

(* ------------------------ persistence gateway -------------------------- *)
EmptyDb == [states |-> {}, blocks |-> {}, balances |-> {}, issuances |-> {}]

GetStateRootBySlot(d, s) == {r.state_root : r \in {x \in d.states : x.slot = s}}

GetLastState(d) ==
    IF d.states = {} THEN None
    ELSE {r \in d.states : \A o \in d.states : o.slot <= r.slot}

StoreState(d, root, s) ==
    [d EXCEPT !.states = @ \cup {[state_root |-> root, slot |-> s]}]

GetDepositSumFromBlockRoot(d, block_root) ==
    {b.deposit_sum_aggregated : b \in {x \in d.blocks : x.block_root = block_root}}

GetWithdrawalSumFromBlockRoot(d, block_root) ==
    {b.withdrawal_sum_aggregated : b \in {x \in d.blocks : x.block_root = block_root}}

GetIsHashKnown(d, block_root) ==
    \/ block_root = GENESIS_PARENT_ROOT
    \/ \E b \in d.blocks : b.block_root = block_root

StoreBlock(d, block, deposit_sum, deposit_sum_aggregated, withdrawal_sum, withdrawal_sum_aggregated, header) ==
    [d EXCEPT !.blocks = @ \cup
        {[block_hash |-> block.block_hash,
          block_root |-> header.root,
          deposit_sum |-> deposit_sum,
          deposit_sum_aggregated |-> deposit_sum_aggregated,
          withdrawal_sum |-> withdrawal_sum,
          withdrawal_sum_aggregated |-> withdrawal_sum_aggregated,
          parent_root |-> header.parent_root,
          state_root |-> header.state_root]}]

StoreValidatorsBalance(d, root, s, gwei) ==
    [d EXCEPT !.balances = @ \cup
        {[timestamp |-> DateTime(s), state_root |-> root, gwei |-> gwei]}]

StoreIssuance(d, root, s, gwei) ==
    [d EXCEPT !.issuances = @ \cup
        {[timestamp |-> DateTime(s), state_root |-> root, gwei |-> gwei]}]

(* state roots selected by the sub-queries of the delete statements *)
RootsFrom(d, s) == {r.state_root : r \in {x \in d.states : x.slot >= s}}
RootsAt(d, s) == {r.state_root : r \in {x \in d.states : x.slot = s}}

(* variant: the sub-query selects the one slot *)
DeleteBlocks_SlotOnly(d, s) ==
    [d EXCEPT !.blocks = {b \in @ : b.state_root \notin RootsAt(d, s)}]
(* variant: the sub-query's bound is one slot too low *)
DeleteBlocks_OffByOne(d, s) ==
    [d EXCEPT !.blocks = {b \in @ : b.state_root \notin RootsFrom(d, s - 1)}]
DeleteBlocks(d, s) ==
    [d EXCEPT !.blocks = {b \in @ : b.state_root \notin RootsFrom(d, s)}]
DeleteIssuances(d, s) ==
    [d EXCEPT !.issuances = {i \in @ : i.state_root \notin RootsFrom(d, s)}]
DeleteValidatorSums(d, s) ==
    [d EXCEPT !.balances = {v \in @ : v.state_root \notin RootsFrom(d, s)}]
(* variant: WHERE slot = $1 *)
DeleteStates_SlotOnly(d, s) ==
    [d EXCEPT !.states = {r \in @ : ~(r.slot = s)}]
(* variant: the bound is one slot too low *)
DeleteStates_OffByOne(d, s) ==
    [d EXCEPT !.states = {r \in @ : ~(r.slot >= s - 1)}]
(* variant: WHERE slot > $1 *)
DeleteStates_Exclusive(d, s) ==
    [d EXCEPT !.states = {r \in @ : ~(r.slot > s)}]
(* variant: only the last stored state is deleted, when its slot is >= $1 *)
DeleteStates_LastOnly(d, s) ==
    [d EXCEPT !.states = {r \in @ : ~(r.slot >= s /\ r \in GetLastState(d))}]
DeleteStates(d, s) ==
    [d EXCEPT !.states = {r \in @ : ~(r.slot >= s)}]

DeleteBlock(d, s) ==
    [d EXCEPT !.blocks = {b \in @ : b.state_root \notin RootsAt(d, s)}]
DeleteIssuance(d, s) ==
    [d EXCEPT !.issuances = {i \in @ : i.state_root \notin RootsAt(d, s)}]
DeleteValidatorSum(d, s) ==
    [d EXCEPT !.balances = {v \in @ : v.state_root \notin RootsAt(d, s)}]
DeleteState(d, s) ==
    [d EXCEPT !.states = {r \in @ : r.slot # s}]

(* ------------------------------ aggregators ---------------------------- *)
GetDepositSumFromBlock(block) == SumSeq(block.deposits)

GetWithdrawalSumFromBlock(block) ==
    IF block.withdrawals = None THEN 0
    ELSE SumSeq(CHOOSE w \in block.withdrawals : TRUE)

(* the parent lookups are fetch_one(..).unwrap(): no row is a panic, which *)
(* the result None stands for                                              *)
(* variant: the parent's aggregate is left out *)
GetDepositSumAggregated_NoParent(d, block) ==
    {GetDepositSumFromBlock(block)}

GetDepositSumAggregated(d, block) ==
    LET parent == IF block.slot = 0 THEN Some(0)
                  ELSE GetDepositSumFromBlockRoot(d, block.parent_root)
    IN  {p + GetDepositSumFromBlock(block) : p \in parent}

(* variant: the parent's aggregate is left out *)
GetWithdrawalSumAggregated_NoParent(d, block) ==
    {GetWithdrawalSumFromBlock(block)}

GetWithdrawalSumAggregated(d, block) ==
    LET parent == IF block.slot < SHAPELLA_SLOT THEN Some(0)
                  ELSE GetWithdrawalSumFromBlockRoot(d, block.parent_root)
    IN  {p + GetWithdrawalSumFromBlock(block) : p \in parent}

SumValidatorBalances(validator_balances) == SumSeq(validator_balances)

CalcIssuance(validator_balances_sum_gwei, withdrawal_sum_aggregated, deposit_sum_aggregated) ==
    (validator_balances_sum_gwei + withdrawal_sum_aggregated)
        - deposit_sum_aggregated

(* ------------------------------ initial state -------------------------- *)
(* The synchronizer's writes for slot s of a chain, as one transaction     *)
(* leaves them (header present: state, block, balances, issuance; missed   *)
(* proposal: state and balances).                                          *)
RowsOfSlot(d, chain, s) ==
    LET root == StateRootAt(chain, s)
        sum == SumValidatorBalances(BalancesOf(root))
    IN  IF chain[s] = 0
        THEN StoreValidatorsBalance(StoreState(d, root, s), root, s, sum)
        ELSE LET header == HeaderAt(chain, s)
                 block == NodeGetBlockByBlockRoot(header)
                 dep == CHOOSE x \in GetDepositSumAggregated(d, block) : TRUE
                 wdr == CHOOSE x \in GetWithdrawalSumAggregated(d, block) : TRUE
                 d1 == StoreState(d, header.state_root, header.slot)
                 d2 == StoreBlock(d1, block, GetDepositSumFromBlock(block), dep,
                                  GetWithdrawalSumFromBlock(block), wdr, header)
                 d3 == StoreValidatorsBalance(d2, root, s, sum)
             IN  StoreIssuance(d3, root, s, CalcIssuance(sum, wdr, dep))

RECURSIVE SyncedDb(_, _)
SyncedDb(chain, n) ==
    IF n = 0 THEN EmptyDb ELSE RowsOfSlot(SyncedDb(chain, n - 1), chain, n - 1)

(* chains whose genesis slot holds the genesis block *)
Chains == {c \in [Slots -> Versions] : c[0] = 1}
NoSyncData == [sync_lag |-> 0, header_block_tuple |-> None,
               validator_balances |-> None]
NoRollback == [kind |-> "none", slot |-> 0, caller |-> "none"]
NoJob == [pc |-> "idle", granularity |-> "Slot", from |-> 0]
NoCall == [fn |-> "none", arg |-> 0, ret |-> None]

(* The store holds the slots 0..n-1 an earlier run synced from the chain   *)
(* of that time; the live chain may have reorged since.                    *)
InitLocals ==
    /\ tx = None
    /\ historic = <<>>
    /\ channel = <<>>
    /\ last_slot = 0
    /\ slots_queues = <<>>
    /\ slot = 0
    /\ state_root = None
    /\ sync_data = NoSyncData
    /\ candidate = 0
    /\ rb = NoRollback
    /\ deleted = <<>>
    /\ reorgs = 0
    /\ job = NoJob
    /\ rows = <<>>
    /\ progress = 0
    /\ job_tracker = None
    /\ sse_task = "running"
    /\ call = NoCall

(* the store holds the first n slots of some chain *)
InitStore(max_n) ==
    \E stored \in Chains : \E n \in 0..max_n :
        /\ \A s \in Slots : s >= n /\ s > 0 => stored[s] = 0
        /\ db = SyncedDb(stored, n)

InitCommon ==
    /\ head \in Slots
    /\ live \in {c \in Chains : \A s \in Slots : s > head => c[s] = 0}
    /\ InitStore(head + 1)
    /\ InitLocals

Init == InitCommon /\ pc = "start"

(* ------------------------- the live chain moves ------------------------ *)
Running == pc \notin {"start", "failed", "panicked", "api"}

(* stream_slots, the body of the SSE task for one head event *)
(* variant: no slot is filled in *)
HeadEventSlots_NoGap(event_slot) ==
    <<event_slot>>
HeadEventSlots(event_slot) ==
    (IF event_slot > last_slot /\ event_slot # last_slot + 1
     THEN [i \in 1..(event_slot - last_slot - 1) |-> last_slot + i]
     ELSE <<>>) \o <<event_slot>>

(* a head event reaches the subscribed SSE task *)
(* once the task has ended nothing reads the node's events *)
OnHeadEvent(event_slot) ==
    IF sse_task = "running"
    THEN /\ Len(channel) + Len(HeadEventSlots(event_slot)) <= MaxChannel
         /\ channel' = channel \o HeadEventSlots(event_slot)
         /\ last_slot' = event_slot
    ELSE UNCHANGED <<channel, last_slot>>

LastBlockSlot(chain, h) == MaxOf({t \in 0..h : chain[t] # 0})

(* the chain reaches its next slot, with a block or with a missed proposal *)
NewSlot ==
    /\ Running
    /\ head < MaxSlot
    /\ \E v \in Versions :
          /\ live' = [live EXCEPT ![head + 1] = v]
          /\ IF v # 0 THEN OnHeadEvent(head + 1)
                      ELSE UNCHANGED <<channel, last_slot>>
    /\ head' = head + 1
    /\ UNCHANGED <<sse_task, call, job, rows, progress, job_tracker,
                   db, tx, historic, slots_queues, pc, slot, state_root,
                   sync_data, candidate, rb, deleted, reorgs>>

(* slot d and everything above it is replaced; the node announces its head *)
Reorg ==
    /\ Running
    /\ reorgs < MaxReorgs
    /\ \E d \in 1..head : \E v \in Versions \ {live[d]} :
          /\ live' = [live EXCEPT ![d] = v]
          /\ OnHeadEvent(LastBlockSlot(live', head))
    /\ reorgs' = reorgs + 1
    /\ UNCHANGED <<sse_task, call, job, rows, progress, job_tracker,
                   db, tx, head, historic, slots_queues, pc, slot, state_root,
                   sync_data, candidate, rb, deleted>>

(* the node announces the head it already announced (late or replayed event) *)
ReplayHead ==
    /\ Running
    /\ OnHeadEvent(LastBlockSlot(live, head))
    /\ UNCHANGED <<sse_task, call, job, rows, progress, job_tracker,
                   db, tx, live, head, historic, slots_queues, pc, slot,
                   state_root, sync_data, candidate, rb, deleted, reorgs>>

(* ------------------------------ slot stream ---------------------------- *)
(* stream_slots_from_last, stream_slots_from and SlotRange::new *)
NextSlotToSync ==
    IF GetLastState(db) = None THEN 0
    ELSE (CHOOSE r \in GetLastState(db) : TRUE).slot + 1

(* SlotRange and its iterator: the slots gte..lte, both ends included *)
(* variant: the upper end is left out *)
SlotRangeIter_Exclusive(greater_than_or_equal, less_than_or_equal) ==
    [i \in 1..(less_than_or_equal - greater_than_or_equal)
        |-> greater_than_or_equal + i - 1]
SlotRangeIter(greater_than_or_equal, less_than_or_equal) ==
    [i \in 1..(less_than_or_equal - greater_than_or_equal + 1)
        |-> greater_than_or_equal + i - 1]

(* stream_slots_from: get_last_header, stream_slots and SlotRange::new *)
StreamSlotsFrom(gte_slot, next_pc) ==
    LET last_slot_on_start == NodeGetLastHeader.slot
    IN  /\ last_slot' = last_slot_on_start
        /\ IF gte_slot > last_slot_on_start
           THEN /\ pc' = "panicked"
                /\ historic' = <<>>
           ELSE /\ pc' = next_pc
                /\ historic' = SlotRangeIter(gte_slot, last_slot_on_start)

Start ==
    /\ pc = "start"
    /\ StreamSlotsFrom(NextSlotToSync, "stream")
    /\ UNCHANGED <<sse_task, call, job, rows, progress, job_tracker,
                   db, tx, live, head, channel, slots_queues, slot, state_root,
                   sync_data, candidate, rb, deleted, reorgs>>

(* next() of historic_slots_stream.chain(slots_stream), pushed to the queue *)
SlotsStreamNext ==
    \/ /\ historic # <<>>
       /\ slots_queues' = Append(slots_queues, Head(historic))
       /\ historic' = Tail(historic)
       /\ UNCHANGED channel
    \/ /\ historic = <<>>
       /\ channel # <<>>
       /\ slots_queues' = Append(slots_queues, Head(channel))
       /\ channel' = Tail(channel)
       /\ UNCHANGED historic

(* outer loop of sync_beacon_states: slots_stream.next() and push_back *)
StreamNext ==
    /\ pc = "stream"
    /\ SlotsStreamNext
    /\ pc' = "inner"
    /\ UNCHANGED <<sse_task, call, job, rows, progress, job_tracker,
                   db, tx, live, head, last_slot, slot, state_root, sync_data,
                   candidate, rb, deleted, reorgs>>

(* ------------------------------- sync loop ----------------------------- *)
(* variant: the parent is never compared *)
LastMatches_Always(d, s) ==
    TRUE

(* last_matches of sync_beacon_states *)
LastMatches(d, s) ==
    IF s = 0 THEN TRUE
    ELSE LET last_stored_state_root == GetStateRootBySlot(d, s)
         IN  IF last_stored_state_root = None THEN FALSE
             ELSE last_stored_state_root = NodeGetStateRootBySlot(s - 1)

(* the branch the loop takes for slot s *)
(* variant: every popped slot is synced *)
TakesSync_Always(d, s) ==
    TRUE
TakesSync(d, s) == GetStateRootBySlot(d, s) = None /\ LastMatches(d, s)

(* inner loop: pop_front, the three look-ups and the branch *)
PopSlot ==
    /\ pc = "inner"
    /\ IF slots_queues = <<>>
       THEN /\ pc' = "stream"
            /\ UNCHANGED <<slots_queues, slot, state_root, candidate>>
       ELSE /\ slots_queues' = Tail(slots_queues)
            /\ slot' = Head(slots_queues)
            /\ IF TakesSync(db, Head(slots_queues))
               THEN /\ pc' = "sync_lag"
                    /\ state_root' = NodeGetStateRootBySlot(Head(slots_queues))
                    /\ UNCHANGED candidate
               ELSE /\ pc' = "find"
                    /\ candidate' = Head(slots_queues) - 1
                    /\ UNCHANGED state_root
    /\ UNCHANGED <<sse_task, call, job, rows, progress, job_tracker,
                   db, tx, live, head, historic, channel, last_slot, sync_data,
                   rb, deleted, reorgs>>

(* --------------------------- slot synchronizer ------------------------- *)
(* get_sync_lag and the header fetch that opens gather_sync_data *)
GetSyncLag ==
    /\ pc = "sync_lag"
    /\ sync_data' = [sync_lag |-> DateTime(NodeGetLastHeader.slot) - DateTime(slot),
                     header_block_tuple |-> NodeGetHeaderBySlot(slot),
                     validator_balances |-> None]
    /\ pc' = "gather"
    /\ UNCHANGED <<sse_task, call, job, rows, progress, job_tracker,
                   db, tx, live, head, historic, channel, last_slot,
                   slots_queues, slot, state_root, candidate, rb, deleted, reorgs>>

(* variant: the state root is not read again *)
GatherSyncData_NoRecheck ==
    /\ pc = "gather"
    /\ sync_data' =
          [sync_data EXCEPT !.validator_balances =
              IF sync_data.sync_lag > BLOCK_LAG_LIMIT THEN None
              ELSE {BalancesOf(r) : r \in state_root}]
    /\ tx' = Some(db)
    /\ pc' = "tx_write"
    /\ UNCHANGED <<sse_task, call, job, rows, progress, job_tracker,
                   db, live, head, historic, channel, last_slot, slots_queues,
                   slot, state_root, candidate, rb, deleted, reorgs>>

(* rest of gather_sync_data, then begin() *)
(* variant: the balances are fetched whatever the lag *)
GatherSyncData_NoLagLimit ==
    /\ pc = "gather"
    /\ IF state_root # NodeGetStateRootBySlot(slot)
       THEN /\ pc' = "failed"
            /\ UNCHANGED <<sync_data, tx>>
       ELSE /\ sync_data' =
                 [sync_data EXCEPT !.validator_balances =
                     {BalancesOf(r) : r \in state_root}]
            /\ tx' = Some(db)
            /\ pc' = "tx_write"
    /\ UNCHANGED <<sse_task, call, job, rows, progress, job_tracker,
                   db, live, head, historic, channel, last_slot, slots_queues,
                   slot, state_root, candidate, rb, deleted, reorgs>>

GatherSyncData ==
    /\ pc = "gather"
    /\ IF state_root # NodeGetStateRootBySlot(slot)
       THEN /\ pc' = "failed"
            /\ UNCHANGED <<sync_data, tx>>
       ELSE /\ sync_data' =
                 [sync_data EXCEPT !.validator_balances =
                     IF sync_data.sync_lag > BLOCK_LAG_LIMIT THEN None
                     ELSE {BalancesOf(r) : r \in state_root}]
            /\ tx' = Some(db)
            /\ pc' = "tx_write"
    /\ UNCHANGED <<sse_task, call, job, rows, progress, job_tracker,
                   db, live, head, historic, channel, last_slot, slots_queues,
                   slot, state_root, candidate, rb, deleted, reorgs>>

TxDb == CHOOSE d \in tx : TRUE
TheRoot == CHOOSE r \in state_root : TRUE

(* match header_block_tuple: the state row, and the block row of a header *)
(* variant: a slot without a header stores nothing *)
WriteStateAndBlock_NoStateWithoutHeader(d, s, root, header_block_tuple) ==
    IF header_block_tuple = None
    THEN [result |-> "ok", db |-> d]
    ELSE LET header == CHOOSE h \in header_block_tuple : TRUE
             block == NodeGetBlockByBlockRoot(header)
             dep == GetDepositSumAggregated(d, block)
             wdr == GetWithdrawalSumAggregated(d, block)
         IN  IF dep = None \/ wdr = None
             THEN [result |-> "panic", db |-> d]
             ELSE IF ~GetIsHashKnown(d, header.parent_root)
             THEN [result |-> "missing_parent", db |-> d]
             ELSE [result |-> "ok",
                   db |-> StoreBlock(
                       StoreState(d, header.state_root, header.slot), block,
                       GetDepositSumFromBlock(block),
                       CHOOSE x \in dep : TRUE,
                       GetWithdrawalSumFromBlock(block),
                       CHOOSE x \in wdr : TRUE,
                       header)]

WriteStateAndBlock(d, s, root, header_block_tuple) ==
    IF header_block_tuple = None
    THEN [result |-> "ok", db |-> StoreState(d, root, s)]
    ELSE LET header == CHOOSE h \in header_block_tuple : TRUE
             block == NodeGetBlockByBlockRoot(header)
             dep == GetDepositSumAggregated(d, block)
             wdr == GetWithdrawalSumAggregated(d, block)
         IN  IF dep = None \/ wdr = None
             THEN [result |-> "panic", db |-> d]
             ELSE IF ~GetIsHashKnown(d, header.parent_root)
             THEN [result |-> "missing_parent", db |-> d]
             ELSE [result |-> "ok",
                   db |-> StoreBlock(
                       StoreState(d, header.state_root, header.slot), block,
                       GetDepositSumFromBlock(block),
                       CHOOSE x \in dep : TRUE,
                       GetWithdrawalSumFromBlock(block),
                       CHOOSE x \in wdr : TRUE,
                       header)]

(* variant: the state and block rows are written through the pool, not    *)
(* through the open transaction                                            *)
TxWrite_Pool ==
    /\ pc = "tx_write"
    /\ LET w == WriteStateAndBlock(TxDb, slot, TheRoot,
                                   sync_data.header_block_tuple)
       IN  IF w.result = "ok"
           THEN /\ tx' = Some(w.db)
                /\ db' = w.db
                /\ pc' = "tx_balances"
           ELSE /\ tx' = None
                /\ db' = db
                /\ pc' = IF w.result = "panic" THEN "panicked" ELSE "failed"
    /\ UNCHANGED <<sse_task, call, job, rows, progress, job_tracker,
                   live, head, historic, channel, last_slot, slots_queues,
                   slot, state_root, sync_data, candidate, rb, deleted, reorgs>>

TxWrite ==
    /\ pc = "tx_write"
    /\ LET w == WriteStateAndBlock(TxDb, slot, TheRoot,
                                   sync_data.header_block_tuple)
       IN  IF w.result = "ok"
           THEN /\ tx' = Some(w.db)
                /\ pc' = "tx_balances"
           ELSE /\ tx' = None
                /\ pc' = IF w.result = "panic" THEN "panicked" ELSE "failed"
    /\ UNCHANGED <<sse_task, call, job, rows, progress, job_tracker,
                   db, live, head, historic, channel, last_slot, slots_queues,
                   slot, state_root, sync_data, candidate, rb, deleted, reorgs>>

(* if let Some(validator_balances): the balances row, and the issuance row *)
WriteBalancesAndIssuance(d, s, root, header_block_tuple, validator_balances) ==
    IF validator_balances = None THEN d
    ELSE LET sum == SumValidatorBalances(CHOOSE b \in validator_balances : TRUE)
             d1 == StoreValidatorsBalance(d, root, s, sum)
         IN  IF header_block_tuple = None THEN d1
             ELSE LET header == CHOOSE h \in header_block_tuple : TRUE
                      block == NodeGetBlockByBlockRoot(header)
                      dep == CHOOSE x \in GetDepositSumAggregated(d1, block) : TRUE
                      wdr == CHOOSE x \in GetWithdrawalSumAggregated(d1, block) : TRUE
                  IN  StoreIssuance(d1, root, s, CalcIssuance(sum, wdr, dep))

TxBalances ==
    /\ pc = "tx_balances"
    /\ tx' = Some(WriteBalancesAndIssuance(TxDb, slot, TheRoot,
                     sync_data.header_block_tuple, sync_data.validator_balances))
    /\ pc' = "tx_commit"
    /\ UNCHANGED <<sse_task, call, job, rows, progress, job_tracker,
                   db, live, head, historic, channel, last_slot, slots_queues,
                   slot, state_root, sync_data, candidate, rb, deleted, reorgs>>

(* transaction.commit().await? *)
TxCommit ==
    /\ pc = "tx_commit"
    /\ \/ /\ db' = TxDb
          /\ pc' = "post_commit"
       \/ /\ pc' = "failed"
          /\ UNCHANGED db
    /\ tx' = None
    /\ UNCHANGED <<sse_task, call, job, rows, progress, job_tracker,
                   live, head, historic, channel, last_slot, slots_queues,
                   slot, state_root, sync_data, candidate, rb, deleted, reorgs>>

(* get_last_header and update_deferrable_analysis, which stores nothing *)
PostCommit ==
    /\ pc = "post_commit"
    /\ pc' = IF rb.caller = "api" THEN "api" ELSE "inner"
    /\ UNCHANGED <<sse_task, call, job, rows, progress, job_tracker,
                   db, tx, live, head, historic, channel, last_slot,
                   slots_queues, slot, state_root, sync_data, candidate, rb,
                   deleted, reorgs>>

(* ----------------------------- ancestor finder ------------------------- *)
(* the state root the finder reads from the node: that of the slot's header *)
OnChainStateRoot(s) == {h.state_root : h \in NodeGetHeaderBySlot(s)}

(* the match arm of find_last_matching_slot *)
IsMatch(off_chain_state_root, on_chain_state_root) ==
    /\ off_chain_state_root # None
    /\ on_chain_state_root # None
    /\ off_chain_state_root = on_chain_state_root

(* One probe of candidate_slot. The node has no slot below 0: it answers    *)
(* such a request with 404, which the client reads as None, or with another *)
(* status, which the client returns as an error.                            *)
FindStep ==
    /\ pc = "find"
    /\ \/ /\ IsMatch(GetStateRootBySlot(db, candidate), OnChainStateRoot(candidate))
          /\ rb' = [kind |-> "slots", slot |-> candidate + 1, caller |-> "loop"]
          /\ deleted' = <<>>
          /\ pc' = "rollback"
          /\ UNCHANGED candidate
       \/ /\ ~IsMatch(GetStateRootBySlot(db, candidate), OnChainStateRoot(candidate))
          /\ candidate - 1 >= 0 - MaxBelow
          /\ candidate' = candidate - 1
          /\ UNCHANGED <<rb, deleted, pc>>
       \/ /\ candidate < 0
          /\ pc' = "failed"
          /\ UNCHANGED <<rb, deleted, candidate>>
    /\ UNCHANGED <<sse_task, call, job, rows, progress, job_tracker,
                   db, tx, live, head, historic, channel, last_slot,
                   slots_queues, slot, state_root, sync_data, reorgs>>

(* ---------------------------- rollback executor ------------------------ *)
(* the delete calls of rollback_slots and of rollback_slot, as written *)
(* variant: the state rows are deleted first *)
RollbackSlotsOrder_StatesFirst == <<"states", "blocks", "issuance", "balances">>
RollbackSlotsOrder == <<"blocks", "issuance", "balances", "states">>
RollbackSlotOrder == <<"blocks", "issuance", "balances", "states">>

OrderOf(kind) == IF kind = "slots" THEN RollbackSlotsOrder ELSE RollbackSlotOrder

DeleteFrom(table, kind, d, s) ==
    CASE table = "blocks" ->
            IF kind = "slots" THEN DeleteBlocks(d, s) ELSE DeleteBlock(d, s)
      [] table = "issuance" ->
            IF kind = "slots" THEN DeleteIssuances(d, s) ELSE DeleteIssuance(d, s)
      [] table = "balances" ->
            IF kind = "slots" THEN DeleteValidatorSums(d, s)
                              ELSE DeleteValidatorSum(d, s)
      [] table = "states" ->
            IF kind = "slots" THEN DeleteStates(d, s) ELSE DeleteState(d, s)

(* the tables after the first n delete calls *)
RECURSIVE RollbackPrefix(_, _, _, _)
RollbackPrefix(kind, d, s, n) ==
    IF n = 0 THEN d
    ELSE DeleteFrom(OrderOf(kind)[n], kind, RollbackPrefix(kind, d, s, n - 1), s)

(* rollback_slots and rollback_slot as functions of the committed tables *)
RollbackSlots(d, greater_than_or_equal) ==
    RollbackPrefix("slots", d, greater_than_or_equal, Len(RollbackSlotsOrder))
RollbackSlot(d, s) ==
    RollbackPrefix("slot", d, s, Len(RollbackSlotOrder))

RbDb == IF tx = None THEN db ELSE CHOOSE d \in tx : TRUE

(* the next delete call inside the rollback transaction (begin() first) *)
RbDelete ==
    /\ pc = "rollback"
    /\ Len(deleted) < Len(OrderOf(rb.kind))
    /\ LET table == OrderOf(rb.kind)[Len(deleted) + 1]
       IN  /\ tx' = Some(DeleteFrom(table, rb.kind, RbDb, rb.slot))
           /\ deleted' = Append(deleted, table)
    /\ UNCHANGED <<sse_task, call, job, rows, progress, job_tracker,
                   db, live, head, historic, channel, last_slot, slots_queues,
                   pc, slot, state_root, sync_data, candidate, rb, reorgs>>

(* transaction.commit().await? *)
RbCommit ==
    /\ pc = "rollback"
    /\ Len(deleted) = Len(OrderOf(rb.kind))
    /\ \/ /\ db' = RbDb
          /\ pc' = IF rb.caller = "loop" THEN "requeue" ELSE "api"
       \/ /\ pc' = "failed"
          /\ UNCHANGED db
    /\ tx' = None
    /\ UNCHANGED <<sse_task, call, job, rows, progress, job_tracker,
                   live, head, historic, channel, last_slot, slots_queues,
                   slot, state_root, sync_data, candidate, rb, deleted, reorgs>>

(* for invalid_slot in (first_invalid_slot..=slot).rev(): push_front *)
(* variant: the range is pushed without rev() *)
PushFront_NoRev(queue, first_invalid_slot, s) ==
    [i \in 1..(s - first_invalid_slot + 1) |-> s - i + 1] \o queue
PushFront(queue, first_invalid_slot, s) ==
    [i \in 1..(s - first_invalid_slot + 1) |-> first_invalid_slot + i - 1]
        \o queue

Requeue ==
    /\ pc = "requeue"
    /\ slots_queues' = PushFront(slots_queues, rb.slot, slot)
    /\ pc' = "inner"
    /\ UNCHANGED <<sse_task, call, job, rows, progress, job_tracker,
                   db, tx, live, head, historic, channel, last_slot, slot,
                   state_root, sync_data, candidate, rb, deleted, reorgs>>

(* a statement of an open transaction fails: unwrap() panics, the           *)
(* transaction is dropped and rolls back                                    *)
InTransaction ==
    tx # None

DbError ==
    /\ InTransaction
    /\ tx' = None
    /\ pc' = "panicked"
    /\ UNCHANGED <<sse_task, call, job, rows, progress, job_tracker,
                   db, live, head, historic, channel, last_slot, slots_queues,
                   slot, state_root, sync_data, candidate, rb, deleted, reorgs>>

(* rollback_slots and rollback_slot called on their own *)
CallRollbackSlots ==
    /\ pc = "api"
    /\ \E x \in 0..(MaxSlot + 1) :
          rb' = [kind |-> "slots", slot |-> x, caller |-> "api"]
    /\ deleted' = <<>>
    /\ pc' = "rollback"
    /\ UNCHANGED <<sse_task, call, job, rows, progress, job_tracker,
                   db, tx, live, head, historic, channel, last_slot,
                   slots_queues, slot, state_root, sync_data, candidate,
                   reorgs>>

CallRollbackSlot ==
    /\ pc = "api"
    /\ \E x \in 0..(MaxSlot + 1) :
          rb' = [kind |-> "slot", slot |-> x, caller |-> "api"]
    /\ deleted' = <<>>
    /\ pc' = "rollback"
    /\ UNCHANGED <<sse_task, call, job, rows, progress, job_tracker,
                   db, tx, live, head, historic, channel, last_slot,
                   slots_queues, slot, state_root, sync_data, candidate,
                   reorgs>>

(* sync_slot_by_state_root called on its own, the way the loop is meant to *)
(* call it: for a slot of the live chain that has no stored state, with    *)
(* the state root the node reports for it                                  *)
CallSyncSlotByStateRoot ==
    /\ pc = "api"
    /\ \E s \in 0..head :
          /\ GetStateRootBySlot(db, s) = None
          /\ slot' = s
          /\ state_root' = NodeGetStateRootBySlot(s)
          /\ rb' = [kind |-> "sync", slot |-> s, caller |-> "api"]
    /\ pc' = "sync_lag"
    /\ UNCHANGED <<sse_task, call, job, rows, progress, job_tracker,
                   db, tx, live, head, historic, channel, last_slot,
                   slots_queues, sync_data, candidate, deleted, reorgs>>

(* ----------------------------- specifications -------------------------- *)
Loop ==
    \/ Start \/ StreamNext \/ PopSlot
    \/ GetSyncLag \/ GatherSyncData \/ TxWrite \/ TxBalances \/ TxCommit
    \/ PostCommit
    \/ FindStep
    \/ RbDelete \/ RbCommit \/ Requeue

Next == Loop \/ DbError \/ NewSlot \/ Reorg \/ ReplayHead

Spec == Init /\ [][Next]_vars

(* the rollback executor called on a store, outside the loop *)
InitRollback ==
    /\ InitCommon
    /\ db = SyncedDb(live, head + 1)
    /\ pc = "api"

NextRollback ==
    \/ CallRollbackSlots \/ CallRollbackSlot
    \/ RbDelete \/ RbCommit
    \/ DbError

SpecRollback == InitRollback /\ [][NextRollback]_vars

(* the slot synchronizer called on a store, outside the loop, while the    *)
(* live chain moves                                                        *)
InitSync ==
    /\ InitCommon
    /\ pc = "api"

NextSync ==
    \/ CallSyncSlotByStateRoot
    \/ GetSyncLag \/ GatherSyncData \/ TxWrite \/ TxBalances \/ TxCommit
    \/ PostCommit
    \/ DbError
    \/ NewSlot \/ Reorg

SpecSync == InitSync /\ [][NextSync]_vars

(* the slot synchronizer called on a store that is far behind the head of  *)
(* the live chain: the chain has reached slot LagHead, with a block in     *)
(* every slot above MaxSlot, and the store holds its first n slots         *)
InitLag ==
    /\ head = LagHead
    /\ \E c \in Chains : \E n \in 0..(MaxSlot + 1) :
          /\ live = [s \in 0..LagHead |-> IF s <= MaxSlot THEN c[s] ELSE 1]
          /\ db = SyncedDb(c, n)
    /\ InitLocals
    /\ pc = "api"

NextLag ==
    \/ CallSyncSlotByStateRoot
    \/ GetSyncLag \/ GatherSyncData \/ TxWrite \/ TxBalances \/ TxCommit
    \/ PostCommit
    \/ DbError

SpecLag == InitLag /\ [][NextLag]_vars

(* any sequence of calls of the slot synchronizer and of rollback_slots on  *)
(* a store, while the live chain moves                                     *)
NextStore ==
    \/ CallSyncSlotByStateRoot
    \/ GetSyncLag \/ GatherSyncData \/ TxWrite \/ TxBalances \/ TxCommit
    \/ PostCommit
    \/ CallRollbackSlots \/ RbDelete \/ RbCommit
    \/ DbError
    \/ NewSlot \/ Reorg

SpecStore == InitSync /\ [][NextStore]_vars

(* the loop alone, scheduled fairly, over a live chain that no longer moves *)
SpecStable == Init /\ [][Loop]_vars /\ WF_vars(Loop)

(* ------------------------------- properties ---------------------------- *)
StoredStateRoot(s) == GetStateRootBySlot(db, s)
LiveStateRoot(s) == NodeGetStateRootBySlot(s)
Fatal == pc \in {"failed", "panicked"}

(* ok_parent: slot 0, or the stored and the live state root of slot s-1 agree *)
OkParent(s) == s = 0 \/ StoredStateRoot(s - 1) = LiveStateRoot(s - 1)

(* C1: for every slot S popped from the queue the loop calls the slot      *)
(* synchronizer exactly when no state row is stored for S and (S = 0 or    *)
(* the stored state root of S-1 equals the live state root of S-1);        *)
(* otherwise it takes the rollback path and stores nothing in that step.   *)
C1_SyncExactlyWhenGuardHolds ==
    [][(pc = "inner" /\ slots_queues # <<>> /\ pc' # "inner") =>
          LET s == Head(slots_queues)
          IN  /\ (pc' = "sync_lag") <=> (StoredStateRoot(s) = None /\ OkParent(s))
              /\ pc' # "sync_lag" => (pc' = "find" /\ db' = db)]_vars

(* C2: once the live chain has stopped changing, every slot the stream     *)
(* delivered is eventually stored with its live state root, and rollbacks  *)
(* stop: the loop does not cycle between rollback and re-enqueue.          *)
C2_DeliveredSlotsEventuallyCommitted ==
    ([]~Fatal) =>
        /\ \A s \in Slots :
              (pc = "inner" /\ slots_queues = <<s>>)
                  ~> (StoredStateRoot(s) = LiveStateRoot(s))
        /\ <>[](pc # "requeue")

(* C3: the rows the slot synchronizer writes for one slot become visible   *)
(* together at its commit: every other step of the call, a failure or a    *)
(* panic included, leaves the committed tables as they were, and the       *)
(* commit adds the state row together with the block row of a header, the  *)
(* balances row of a fetched snapshot and the issuance row of both.        *)
InSynchronizer ==
    pc \in {"sync_lag", "gather", "tx_write", "tx_balances", "tx_commit"}

RowsFor(table, root) == {r \in table : r.state_root = root}

C3_SlotRowsVisibleTogether ==
    [][InSynchronizer =>
          \/ db' = db
          \/ /\ pc = "tx_commit"
             /\ pc' = "post_commit"
             /\ LET hdr == sync_data.header_block_tuple
                    bal == sync_data.validator_balances
                    anchor == IF hdr = None THEN TheRoot
                              ELSE (CHOOSE h \in hdr : TRUE).state_root
                IN  /\ db'.states \ db.states =
                           {[state_root |-> anchor, slot |-> slot]}
                    /\ db'.blocks \ db.blocks = RowsFor(db'.blocks, anchor)
                    /\ db'.balances \ db.balances = RowsFor(db'.balances, TheRoot)
                    /\ db'.issuances \ db.issuances =
                           RowsFor(db'.issuances, TheRoot)
                    /\ Cardinality(RowsFor(db'.blocks, anchor)) =
                           (IF hdr # None THEN 1 ELSE 0)
                    /\ Cardinality(RowsFor(db'.balances, TheRoot)) =
                           (IF bal # None THEN 1 ELSE 0)
                    /\ Cardinality(RowsFor(db'.issuances, TheRoot)) =
                           (IF hdr # None /\ bal # None THEN 1 ELSE 0)
                    /\ db.states \subseteq db'.states
                    /\ db.blocks \subseteq db'.blocks
                    /\ db.balances \subseteq db'.balances
                    /\ db.issuances \subseteq db'.issuances]_vars

C3_Witness ==
    /\ pc = "post_commit"
    /\ slot > 0
    /\ db.states # RowsFor(db.states, TheRoot)
    /\ RowsFor(db.states, TheRoot) # {}
    /\ RowsFor(db.blocks, TheRoot) # {}
    /\ RowsFor(db.balances, TheRoot) # {}
    /\ RowsFor(db.issuances, TheRoot) # {}

(* the step on which a rollback_slots transaction commits *)
RollbackSlotsCommits ==
    /\ pc = "rollback"
    /\ rb.kind = "slots"
    /\ Len(deleted) = Len(RollbackSlotsOrder)
    /\ pc' \in {"api", "requeue"}

(* the state roots stored at a slot < X *)
RootsBelow(d, X) == {r.state_root : r \in {x \in d.states : x.slot < X}}

(* C4: after rollback_slots(X) commits no state row with slot >= X remains *)
(* and no block, balances or issuance row whose state had slot >= X.       *)
C4_RollbackRemovesFromX ==
    [][RollbackSlotsCommits =>
          /\ \A r \in db'.states : r.slot < rb.slot
          /\ \A b \in db'.blocks : b.state_root \notin RootsFrom(db, rb.slot)
          /\ \A v \in db'.balances : v.state_root \notin RootsFrom(db, rb.slot)
          /\ \A i \in db'.issuances : i.state_root \notin RootsFrom(db, rb.slot)
      ]_vars

C4_Witness ==
    /\ pc = "api"
    /\ rb.kind = "slots"
    /\ Len(deleted) = Len(RollbackSlotsOrder)
    /\ rb.slot \in 1..(MaxSlot - 1)
    /\ head > rb.slot
    /\ \E r \in db.states : r.slot = rb.slot - 1
    /\ \A r \in db.states : r.slot < rb.slot
    /\ db.blocks # {}

(* C5: rollback_slots(X) leaves every state row with slot < X and every    *)
(* block, balances and issuance row of a state with slot < X as it was.    *)
C5_RollbackKeepsBelowX ==
    [][RollbackSlotsCommits =>
          /\ \A r \in db.states : r.slot < rb.slot => r \in db'.states
          /\ \A b \in db.blocks :
                b.state_root \in RootsBelow(db, rb.slot) => b \in db'.blocks
          /\ \A v \in db.balances :
                v.state_root \in RootsBelow(db, rb.slot) => v \in db'.balances
          /\ \A i \in db.issuances :
                i.state_root \in RootsBelow(db, rb.slot) => i \in db'.issuances
      ]_vars

C5_Witness ==
    /\ pc = "api"
    /\ rb.kind = "slots"
    /\ Len(deleted) = Len(RollbackSlotsOrder)
    /\ rb.slot \in 2..MaxSlot
    /\ head >= rb.slot
    /\ Cardinality(db.states) = rb.slot
    /\ Cardinality(db.blocks) >= 2
    /\ db.issuances # {}

IsPrefixOf(p, q) == Len(p) <= Len(q) /\ p = SubSeq(q, 1, Len(p))

(* the tables after the first n deletes of a given order *)
RECURSIVE DeletedInOrder(_, _, _, _, _)
DeletedInOrder(order, kind, d, s, n) ==
    IF n = 0 THEN d
    ELSE DeleteFrom(order[n], kind, DeletedInOrder(order, kind, d, s, n - 1), s)

(* C6 as stated: inside the rollback transaction rollback_slots and        *)
(* rollback_slot delete issuance rows first, then balances rows, then      *)
(* block rows, then state rows.                                            *)
C6_IssuanceBalancesBlocksStates ==
    pc = "rollback" =>
        IsPrefixOf(deleted, <<"issuance", "balances", "blocks", "states">>)

(* C6 amended: inside the rollback transaction rollback_slots and          *)
(* rollback_slot delete block rows first, then issuance rows, then         *)
(* balances rows, then state rows; the open transaction holds exactly the  *)
(* effect of the deletes done so far in that order.                        *)
C6_BlocksIssuanceBalancesStates ==
    pc = "rollback" =>
        /\ IsPrefixOf(deleted, <<"blocks", "issuance", "balances", "states">>)
        /\ RbDb = DeletedInOrder(<<"blocks", "issuance", "balances", "states">>,
                                 rb.kind, db, rb.slot, Len(deleted))

C6_Witness ==
    /\ pc = "rollback"
    /\ rb.kind = "slots"
    /\ deleted = <<"blocks", "issuance", "balances">>
    /\ db.blocks # {} /\ db.issuances # {} /\ db.balances # {}
    /\ RbDb.blocks = {} /\ RbDb.issuances = {} /\ RbDb.balances = {}
    /\ RbDb.states = db.states

(* C7: rollback_slots(X) is idempotent: applied to the tables it left, it  *)
(* leaves all four tables as they are, for every X.                        *)
C7_RollbackSlotsIdempotent ==
    \A X \in 0..(MaxSlot + 1) :
        LET once == RollbackSlots(RbDb, X)
        IN  RollbackSlots(once, X) = once

C7_Witness ==
    /\ pc = "api"
    /\ rb.kind = "slots"
    /\ Len(deleted) = Len(RollbackSlotsOrder)
    /\ rb.slot \in 1..MaxSlot
    /\ head > rb.slot
    /\ db.states # {}
    /\ db.blocks # {}
    /\ RollbackSlots(db, rb.slot) = db
    /\ RollbackSlots(db, rb.slot - 1) # db

(* stored and live state root of slot m both exist and are equal *)
Matching(m) ==
    /\ StoredStateRoot(m) # None
    /\ LiveStateRoot(m) # None
    /\ StoredStateRoot(m) = LiveStateRoot(m)

(* the ancestor finder has just returned rb.slot - 1 for candidate slot - 1 *)
FinderReturned ==
    pc = "rollback" /\ rb.caller = "loop" /\ deleted = <<>> /\ tx = None

(* C8: the ancestor finder returns the greatest slot M <= C whose stored   *)
(* and live state roots both exist and are equal; no slot between M and C  *)
(* satisfies that, a matching slot without a proposed block included.      *)
C8_FinderReturnsGreatestMatch ==
    FinderReturned =>
        /\ Matching(rb.slot - 1)
        /\ \A m \in rb.slot..(slot - 1) : ~Matching(m)

(* C9: the ancestor finder never probes a slot below 0.                    *)
C9_FinderNeverProbesBelowZero ==
    pc = "find" => candidate >= 0

(* C10: when the rollback path ran for popped slot S with ancestor M, the  *)
(* queue then starts with M+1, M+2, ..., S in ascending order, followed by *)
(* what it held before.                                                    *)
C10_RequeueAscendingAtFront ==
    [][(pc = "requeue" /\ pc' = "inner") =>
          LET M == rb.slot - 1
              n == slot - M
          IN  /\ n >= 1
              /\ Len(slots_queues') = n + Len(slots_queues)
              /\ \A i \in 1..n : slots_queues'[i] = M + i
              /\ \A i \in 1..Len(slots_queues) :
                    slots_queues'[n + i] = slots_queues[i]]_vars

C10_Witness ==
    /\ pc = "inner"
    /\ rb.caller = "loop"
    /\ slot >= rb.slot + 1
    /\ Len(slots_queues) > slot - rb.slot + 1
    /\ \A i \in 1..(slot - rb.slot + 1) : slots_queues[i] = rb.slot + i - 1

(* the re-check of gather_sync_data is about to fail: the node no longer   *)
(* reports the state root the synchronizer was called with                 *)
ReorgedDuringGather ==
    pc = "gather" /\ state_root # NodeGetStateRootBySlot(slot)

(* C11: when the slot synchronizer fails with ReorgedDuringGather for slot *)
(* S the caller does not terminate: it takes the rollback path for S (the  *)
(* ancestor finder is started for S).                                      *)
C11_ReorgedDuringGatherTakesRollbackPath ==
    [][(ReorgedDuringGather /\ pc' # "gather") =>
          (pc' = "find" /\ slot' = slot)]_vars

(* the header gathered for the slot that is being written *)
GatheredHeader == CHOOSE h \in sync_data.header_block_tuple : TRUE

(* C12: when a header exists and its parent_root is neither a stored       *)
(* block_root nor the genesis sentinel the synchronizer returns the        *)
(* MissingParent error and writes no row; with the genesis sentinel as     *)
(* parent the check passes.                                                *)
C12_MissingParentIsReturned ==
    [][(TxWrite /\ sync_data.header_block_tuple # None) =>
          /\ ~GetIsHashKnown(TxDb, GatheredHeader.parent_root) =>
                (pc' = "failed" /\ db' = db /\ tx' = None)
          /\ GatheredHeader.parent_root = GENESIS_PARENT_ROOT =>
                pc' = "tx_balances"]_vars

(* sync lag of the slot that is being written: get_sync_lag *)
SyncLagOf(s) == DateTime(NodeGetLastHeader.slot) - DateTime(s)

(* state root of the state and block rows the synchronizer writes *)
AnchorRoot ==
    IF sync_data.header_block_tuple = None THEN TheRoot
    ELSE GatheredHeader.state_root

(* C13: for a slot whose lag exceeds BLOCK_LAG_LIMIT the synchronizer      *)
(* commits the state row, and the block row of a header, but no balances   *)
(* row and no issuance row; within the limit it writes a balances row.     *)
C13_BalancesSkippedBeyondLagLimit ==
    [][(pc = "tx_commit" /\ pc' = "post_commit") =>
          IF SyncLagOf(slot) > BLOCK_LAG_LIMIT
          THEN /\ [state_root |-> AnchorRoot, slot |-> slot] \in db'.states
               /\ sync_data.header_block_tuple # None =>
                     RowsFor(db'.blocks, AnchorRoot) # {}
               /\ RowsFor(db'.balances, TheRoot) = {}
               /\ RowsFor(db'.issuances, TheRoot) = {}
          ELSE Cardinality(RowsFor(db'.balances, TheRoot)) = 1]_vars

C13_Witness ==
    /\ pc = "post_commit"
    /\ slot = 1
    /\ SyncLagOf(slot) > BLOCK_LAG_LIMIT
    /\ RowsFor(db.states, TheRoot) # {}
    /\ RowsFor(db.blocks, TheRoot) # {}
    /\ RowsFor(db.balances, TheRoot) = {}
    /\ RowsFor(db.issuances, TheRoot) = {}

StoredRoots == {r.state_root : r \in db.states}

(* C15: in every committed state of the tables every block row's           *)
(* state_root is the state_root of a stored state row.                     *)
C15_BlocksAnchoredToStates ==
    \A b \in db.blocks : b.state_root \in StoredRoots

C15_Witness ==
    /\ pc = "api"
    /\ rb.kind = "sync"
    /\ rb.slot > 0
    /\ Len(deleted) = Len(RollbackSlotsOrder)
    /\ Cardinality(db.blocks) >= 2
    /\ \E b \in db.blocks : b.state_root \in StoredStateRoot(rb.slot)

(* C16: in every committed state of the tables every balances row and      *)
(* every issuance row has the state_root of a stored state row, also when  *)
(* the header gathered for the slot carries another state root than the    *)
(* one the synchronizer was called with.                                   *)
C16_BalancesAndIssuanceAnchoredToStates ==
    /\ \A v \in db.balances : v.state_root \in StoredRoots
    /\ \A i \in db.issuances : i.state_root \in StoredRoots

(* slot of a block row, through the state row it is joined to *)
SlotOfBlock(b) == {r.slot : r \in {x \in db.states : x.state_root = b.state_root}}

ParentOf(b) == {p \in db.blocks : p.block_root = b.parent_root}

(* C17: in every committed state of the tables a block at slot 0 has       *)
(* deposit_sum_aggregated equal to its own deposit_sum, and every other    *)
(* block has a stored parent and deposit_sum_aggregated equal to the       *)
(* parent's deposit_sum_aggregated plus its own deposit_sum; syncs and     *)
(* rollbacks in any order keep it so.                                      *)
C17_DepositSumAggregatedChain ==
    \A b \in db.blocks :
        IF SlotOfBlock(b) = {0}
        THEN b.deposit_sum_aggregated = b.deposit_sum
        ELSE /\ ParentOf(b) # {}
             /\ \A p \in ParentOf(b) :
                   b.deposit_sum_aggregated =
                       p.deposit_sum_aggregated + b.deposit_sum

C17_Witness ==
    /\ pc = "api"
    /\ rb.kind = "sync"
    /\ Len(deleted) = Len(RollbackSlotsOrder)
    /\ \E b \in db.blocks :
          /\ SlotOfBlock(b) = {rb.slot}
          /\ rb.slot >= 2
          /\ \E p \in ParentOf(b) :
                /\ p.deposit_sum_aggregated > p.deposit_sum
                /\ b.deposit_sum_aggregated =
                       p.deposit_sum_aggregated + b.deposit_sum

(* ------------------- the store around SHAPELLA_SLOT -------------------- *)
(* The chain window of Slots is laid over the slots ShapellaBase + 0..     *)
(* MaxSlot; the store starts with the block of ShapellaBase, which an      *)
(* earlier run synced.                                                     *)
ShapellaBase == SHAPELLA_SLOT - ShapellaSpan

ShapellaHeaderAt(chain, i) == [HeaderAt(chain, i) EXCEPT !.slot = ShapellaBase + i]

ShapellaHeaderBySlot(i) ==
    IF live[i] # 0 THEN Some(ShapellaHeaderAt(live, i)) ELSE None

ShapellaBaseDb(chain) ==
    LET header == ShapellaHeaderAt(chain, 0)
        block == NodeGetBlockByBlockRoot(header)
    IN  StoreBlock(StoreState(EmptyDb, header.state_root, header.slot), block,
                   GetDepositSumFromBlock(block), GetDepositSumFromBlock(block),
                   GetWithdrawalSumFromBlock(block), 0, header)

InitShapella ==
    /\ head = MaxSlot
    /\ live \in Chains
    /\ db = ShapellaBaseDb(live)
    /\ InitLocals
    /\ pc = "api"

(* sync_slot_by_state_root for a slot of the window, run to its commit *)
ShapellaSync ==
    \E i \in 1..MaxSlot :
        LET s == ShapellaBase + i
            root == StateRootAt(live, i)
            w == WriteStateAndBlock(db, s, root, ShapellaHeaderBySlot(i))
        IN  /\ GetStateRootBySlot(db, s) = None
            /\ w.result = "ok"
            /\ db' = WriteBalancesAndIssuance(w.db, s, root,
                         ShapellaHeaderBySlot(i), Some(BalancesOf(root)))
            /\ slot' = s
            /\ UNCHANGED <<sse_task, call, job, rows, progress, job_tracker,
                           tx, live, head, historic, channel, last_slot,
                           slots_queues, pc, state_root, sync_data, candidate,
                           rb, deleted, reorgs>>

(* rollback_slots for a slot of the window, run to its commit *)
ShapellaRollback ==
    \E i \in 1..MaxSlot :
        /\ GetStateRootBySlot(db, ShapellaBase + i) # None
        /\ db' = RollbackSlots(db, ShapellaBase + i)
        /\ UNCHANGED <<sse_task, call, job, rows, progress, job_tracker,
                       tx, live, head, historic, channel, last_slot,
                       slots_queues, pc, slot, state_root, sync_data,
                       candidate, rb, deleted, reorgs>>

(* the slots above the base are replaced on the live chain *)
ShapellaReorg ==
    /\ reorgs < MaxReorgs
    /\ \E d \in 1..MaxSlot : \E v \in Versions \ {live[d]} :
          live' = [live EXCEPT ![d] = v]
    /\ reorgs' = reorgs + 1
    /\ UNCHANGED <<sse_task, call, job, rows, progress, job_tracker,
                   db, tx, head, historic, channel, last_slot, slots_queues,
                   pc, slot, state_root, sync_data, candidate, rb, deleted>>

NextShapella == ShapellaSync \/ ShapellaRollback \/ ShapellaReorg
SpecShapella == InitShapella /\ [][NextShapella]_vars

(* C18: in every committed state of the tables a block with slot below     *)
(* SHAPELLA_SLOT has withdrawal_sum_aggregated 0, and a block with slot at *)
(* or above SHAPELLA_SLOT has withdrawal_sum_aggregated equal to its       *)
(* parent's withdrawal_sum_aggregated plus its own withdrawal_sum.         *)
C18_WithdrawalSumAggregatedChain ==
    \A b \in db.blocks : \A s \in SlotOfBlock(b) :
        IF s < SHAPELLA_SLOT
        THEN b.withdrawal_sum_aggregated = 0
        ELSE /\ ParentOf(b) # {}
             /\ \A p \in ParentOf(b) :
                   b.withdrawal_sum_aggregated =
                       p.withdrawal_sum_aggregated + b.withdrawal_sum

C18_Witness ==
    \E b \in db.blocks : \E p \in ParentOf(b) :
        /\ SlotOfBlock(b) = {SHAPELLA_SLOT + 1}
        /\ SlotOfBlock(p) = {SHAPELLA_SLOT}
        /\ p.withdrawal_sum > 0
        /\ b.withdrawal_sum > 0
        /\ b.withdrawal_sum_aggregated = p.withdrawal_sum + b.withdrawal_sum
        /\ \E q \in db.blocks :
              SlotOfBlock(q) = {SHAPELLA_SLOT - 1} /\ q.withdrawal_sum_aggregated = 0

BalancesRowsOf(i) == {v \in db.balances : v.state_root = i.state_root}
BlockRowsOf(i) == {b \in db.blocks : b.state_root = i.state_root}

(* C19: in every committed state of the tables every issuance row has a    *)
(* balances row and a block row with its state_root, and its gwei is the   *)
(* balances row's gwei plus the block's withdrawal_sum_aggregated minus    *)
(* the block's deposit_sum_aggregated.                                     *)
C19_IssuanceFromBalancesAndBlock ==
    \A i \in db.issuances :
        /\ BalancesRowsOf(i) # {}
        /\ BlockRowsOf(i) # {}
        /\ \A v \in BalancesRowsOf(i) : \A b \in BlockRowsOf(i) :
              i.gwei = CalcIssuance(v.gwei, b.withdrawal_sum_aggregated,
                                    b.deposit_sum_aggregated)

(* the loop on a store, and the synchronizer and rollback_slots called on  *)
(* a store holding any slots                                               *)
InitLoopAndCalls == InitCommon /\ pc \in {"start", "api"}
NextLoopAndCalls == Next \/ NextStore
SpecLoopAndCalls == InitLoopAndCalls /\ [][NextLoopAndCalls]_vars

(* get_last_state().slot *)
LastStateSlot(d) == {r.slot : r \in GetLastState(d)}

(* the last stored slot is lower after the step, or is no more *)
LastStateSlotDecreases ==
    /\ LastStateSlot(db) # None
    /\ \A a \in LastStateSlot(db) : \A b \in LastStateSlot(db') : b < a

(* C20: get_last_state().slot never decreases across a step of the loop    *)
(* that ingests a slot; it decreases only in the commit of rollback_slots,  *)
(* and then not below the ancestor slot M = first_invalid_slot - 1 the      *)
(* finder returned.                                                        *)
C20_LastStateSlotMonotoneButRollback ==
    [][/\ InSynchronizer => ~LastStateSlotDecreases
       /\ LastStateSlotDecreases =>
             /\ RollbackSlotsCommits
             /\ rb.caller = "loop" =>
                   /\ LastStateSlot(db') # None
                   /\ \A b \in LastStateSlot(db') : b >= rb.slot - 1]_vars

C20_Witness ==
    /\ pc = "requeue"
    /\ rb.caller = "loop"
    /\ rb.slot < slot
    /\ LastStateSlot(db) = {rb.slot - 1}
    /\ rb.slot - 1 > 0

(* the synchronizer's transaction commits inside the loop *)
LoopSyncCommits ==
    /\ pc = "tx_commit"
    /\ pc' = "post_commit"
    /\ rb.caller # "api"

StartUnsubscribed ==
    /\ pc = "start"
    /\ StreamSlotsFrom(NextSlotToSync, "subscribing")
    /\ UNCHANGED <<sse_task, call, job, rows, progress, job_tracker,
                   db, tx, live, head, channel, slots_queues, slot, state_root,
                   sync_data, candidate, rb, deleted, reorgs>>

(* the chain reaches its next slot before the SSE task is connected *)
NewSlotUnheard ==
    /\ pc = "subscribing"
    /\ head < MaxSlot
    /\ \E v \in Versions : live' = [live EXCEPT ![head + 1] = v]
    /\ head' = head + 1
    /\ UNCHANGED <<sse_task, call, job, rows, progress, job_tracker,
                   db, tx, historic, channel, last_slot, slots_queues, pc,
                   slot, state_root, sync_data, candidate, rb, deleted, reorgs>>

Subscribe ==
    /\ pc = "subscribing"
    /\ pc' = "stream"
    /\ UNCHANGED <<sse_task, call, job, rows, progress, job_tracker,
                   db, tx, live, head, historic, channel, last_slot,
                   slots_queues, slot, state_root, sync_data, candidate, rb,
                   deleted, reorgs>>

NewSlotHeard == pc = "stream" /\ NewSlot

Collect ==
    /\ pc = "stream"
    /\ SlotsStreamNext
    /\ UNCHANGED <<sse_task, call, job, rows, progress, job_tracker,
                   db, tx, live, head, last_slot, pc, slot, state_root,
                   sync_data, candidate, rb, deleted, reorgs>>

NextStream ==
    StartUnsubscribed \/ NewSlotUnheard \/ Subscribe \/ NewSlotHeard \/ Collect
SpecStream == Init /\ [][NextStream]_vars

(* the slots a, a+1, ..., in ascending order *)
IsRunFrom(seq, a) == \A i \in 1..Len(seq) : seq[i] = a + i - 1

(* C22: with head events of increasing slots the merged stream delivers    *)
(* S_start, S_start+1, S_start+2, ... in ascending order, none missing and *)
(* none repeated, the slots the chain made between the head-header query   *)
(* and the SSE subscription included: what was delivered, followed by what *)
(* waits in the historic range and in the channel, is that run.            *)
C22_MergedStreamIsAscendingRun ==
    pc # "start" => IsRunFrom(slots_queues \o historic \o channel, NextSlotToSync)

C22_Witness ==
    /\ pc = "stream"
    /\ db = EmptyDb
    /\ slots_queues = <<0, 1, 2, 3>>
    /\ last_slot = 3
    /\ live[2] = 0
    /\ live[1] # 0

(* the SSE task handles a head event: it sends to the channel *)
HeadEventHandled == Len(channel') > Len(channel)

(* C23: for a head event with slot H > last_slot + 1 the SSE task sends    *)
(* exactly last_slot+1, last_slot+2, ..., H-1, H, each once and ascending, *)
(* behind what the channel held and before anything of a later event.      *)
C23_GapIsFilledInOrder ==
    [][(HeadEventHandled /\ last_slot' > last_slot + 1) =>
          channel' = channel \o
              [i \in 1..(last_slot' - last_slot) |-> last_slot + i]]_vars

C23_Witness ==
    /\ Running
    /\ last_slot >= 3
    /\ channel = <<last_slot - 1, last_slot>>
    /\ live[last_slot - 1] = 0
    /\ reorgs = 0

(* C24: for a head event with slot H <= last_slot the SSE task sends       *)
(* nothing and last_slot keeps its value; last_slot never decreases, so    *)
(* whatever is sent comes with a head slot above every earlier one.        *)
C24_StaleHeadEventIsDropped ==
    [][/\ last_slot' >= last_slot
       /\ HeadEventHandled => last_slot' > last_slot]_vars

(* the loop has taken every slot the stream held and emptied its queue *)
StreamProcessed ==
    pc = "stream" /\ historic = <<>> /\ channel = <<>> /\ slots_queues = <<>>

(* sum of the deposit sums of the blocks of slots 0..n of the live chain *)
RECURSIVE DepositSumUpTo(_)
DepositSumUpTo(n) ==
    GetDepositSumFromBlock(NodeGetBlockByBlockRoot(HeaderAt(live, n)))
        + (IF n = 0 THEN 0 ELSE DepositSumUpTo(n - 1))

(* one state, block, balances and issuance row per slot 0..head, each with *)
(* the live root, and the aggregate of slot head is the sum of all sums    *)
StoreHoldsLiveChain ==
    /\ db = SyncedDb(live, head + 1)
    /\ Cardinality(db.states) = head + 1
    /\ Cardinality(db.blocks) = head + 1
    /\ Cardinality(db.balances) = head + 1
    /\ Cardinality(db.issuances) = head + 1
    /\ \A b \in db.blocks :
          b.block_root = BlockRootAt(live, head) =>
              b.deposit_sum_aggregated = DepositSumUpTo(head)

(* C25: started on an empty store with a live chain that stays as it is    *)
(* and has a block at every slot 0..N, the loop comes to the end of the    *)
(* stream with one state, block, balances and issuance row per slot 0..N   *)
(* and deposit_sum_aggregated of slot N the sum of the deposit sums 0..N,  *)
(* unless a fatal error ends the process.                                  *)
C25_EmptyStoreIsFilledToHead ==
    ([]~Fatal) =>
        ((pc = "start" /\ db = EmptyDb /\ \A s \in 0..head : live[s] # 0)
            ~> (StreamProcessed /\ StoreHoldsLiveChain))

(* slot S is stored with a root the live chain no longer has for it, and    *)
(* every slot below S is stored with the live root                          *)
ReorgedAt(S) ==
    /\ S \in 1..head
    /\ StoredStateRoot(S) # None
    /\ StoredStateRoot(S) # LiveStateRoot(S)
    /\ \A m \in 0..(S - 1) : StoredStateRoot(m) = LiveStateRoot(m)

(* C26: when the loop has a slot to examine while slot S is stored with    *)
(* root R, the live chain has R' # R at S and all slots below S agree,     *)
(* the rows from S on are rolled back and S is ingested again with R':     *)
(* slot S comes to be stored with the live root, unless a fatal error ends *)
(* the process.                                                            *)
C26_ReorgedSlotIsReingested ==
    ([]~Fatal) =>
        \A S \in Slots :
            (pc = "inner" /\ slots_queues # <<>> /\ ReorgedAt(S))
                ~> (StoredStateRoot(S) = LiveStateRoot(S))

(* ------------------------------- restart ------------------------------- *)
(* The process ended by an error or a panic is started again: the store    *)
(* and the chain are what they were, everything the process held is gone.  *)
Restart ==
    /\ Fatal
    /\ pc' = "start"
    /\ tx' = None
    /\ historic' = <<>>
    /\ channel' = <<>>
    /\ last_slot' = 0
    /\ slots_queues' = <<>>
    /\ slot' = 0
    /\ state_root' = None
    /\ sync_data' = NoSyncData
    /\ candidate' = 0
    /\ rb' = NoRollback
    /\ deleted' = <<>>
    /\ UNCHANGED <<sse_task, call, job, rows, progress, job_tracker,
                   db, live, head, reorgs>>

NextRestart == Next \/ Restart
SpecRestart == Init /\ [][NextRestart]_vars /\ WF_vars(Loop)

(* every stored slot carries the live chain's state root *)
AllStoredLive ==
    \A r \in db.states : Some(r.state_root) = LiveStateRoot(r.slot)

Hour(date_time) == (date_time % 86400) \div 3600

Day(date_time) ==
    LET z == (date_time \div 86400) + 719468
        era == z \div 146097
        doe == z - era * 146097
        yoe == (doe - (doe \div 1460) + (doe \div 36524) - (doe \div 146096)) \div 365
        doy == doe - (365 * yoe + (yoe \div 4) - (yoe \div 100))
        mp == (5 * doy + 2) \div 153
    IN  doy - ((153 * mp + 2) \div 5) + 1

IsFirstOfEpoch(s) == s % 32 = 0

IsFirstOfDay(s) ==
    IF s = 0 THEN TRUE ELSE Day(DateTime(s - 1)) # Day(DateTime(s))

IsFirstOfHour(s) ==
    IF s = 0 THEN TRUE ELSE Hour(DateTime(s - 1)) # Hour(DateTime(s))

Granularities == {"Day", "Epoch", "Hour", "Slot"}

(* the filter_map of backfill_balances *)
MatchesGranularity(granularity, s) ==
    CASE granularity = "Slot" -> TRUE
      [] granularity = "Epoch" -> IsFirstOfEpoch(s)
      [] granularity = "Hour" -> IsFirstOfHour(s)
      [] granularity = "Day" -> IsFirstOfDay(s)

(* the node has the balances of the states of its chain and answers 404 *)
(* for a state root it does not know                                     *)
NodeGetValidatorBalancesByStateRoot(root) ==
    IF root = StateRootAt(live, SlotOfRoot(root))
    THEN NodeGetValidatorBalances(root) ELSE None

(* beacon_states LEFT JOIN beacon_validators_balance ... IS NULL *)
(* variant: WHERE slot > $1 *)
MissingBalancesRows_Exclusive(d, from) ==
    {r \in d.states : r.slot > from /\ RowsFor(d.balances, r.state_root) = {}}
MissingBalancesRows(d, from) ==
    {r \in d.states : r.slot >= from /\ RowsFor(d.balances, r.state_root) = {}}

(* ORDER BY slot DESC *)
RECURSIVE OrderBySlotDesc(_)
OrderBySlotDesc(set) ==
    IF set = {} THEN <<>>
    ELSE LET r == CHOOSE x \in set : \A y \in set : y.slot <= x.slot
         IN  <<r>> \o OrderBySlotDesc(set \ {r})

(* the store of an earlier run, its slots base, base+1, ...; the slots of *)
(* `skipped` were synced beyond the lag limit, without balances           *)
WindowDb(chain, base, skipped) ==
    LET d == SyncedDb(chain, MaxSlot + 1)
        no == {StateRootAt(chain, i) : i \in skipped}
    IN  [states |-> {[r EXCEPT !.slot = @ + base] : r \in d.states},
         blocks |-> d.blocks,
         balances |-> {[v EXCEPT !.timestamp = @ + base * SECONDS_PER_SLOT] :
                          v \in {x \in d.balances : x.state_root \notin no}},
         issuances |-> {[i EXCEPT !.timestamp = @ + base * SECONDS_PER_SLOT] :
                          i \in {x \in d.issuances : x.state_root \notin no}}]

InitBackfill ==
    /\ head = MaxSlot
    /\ \E stored \in Chains : \E base \in BackfillBases :
       \E skipped \in SUBSET Slots :
          /\ db = WindowDb(stored, base, skipped)
          /\ live \in {c \in Chains : \A s \in 0..(MaxSlot - 1) : c[s] = stored[s]}
    /\ InitLocals
    /\ pc = "api"

CallBackfillBalances ==
    /\ job.pc = "idle"
    /\ \E granularity \in Granularities :
       \E from \in {r.slot : r \in db.states} :
          /\ job' = [pc |-> "backfill", granularity |-> granularity,
                     from |-> from]
          /\ rows' = OrderBySlotDesc(
                {r \in MissingBalancesRows(db, from) :
                    MatchesGranularity(granularity, r.slot)})
    /\ progress' = 0
    /\ UNCHANGED <<sse_task, call, db, tx, live, head, historic, channel, last_slot,
                   slots_queues, pc, slot, state_root, sync_data, candidate,
                   rb, deleted, reorgs, job_tracker>>

(* while let Some(..) = buffered_tasks.next(): one row *)
BackfillNext ==
    /\ job.pc = "backfill"
    /\ rows # <<>>
    /\ LET row == Head(rows)
           balances_result == NodeGetValidatorBalancesByStateRoot(row.state_root)
       IN  IF balances_result = None
           THEN UNCHANGED db
           ELSE db' = StoreValidatorsBalance(db, row.state_root, row.slot,
                         SumValidatorBalances(CHOOSE b \in balances_result : TRUE))
    /\ progress' = progress + 1
    /\ rows' = Tail(rows)
    /\ UNCHANGED <<sse_task, call, tx, live, head, historic, channel, last_slot, slots_queues,
                   pc, slot, state_root, sync_data, candidate, rb, deleted,
                   reorgs, job, job_tracker>>

(* get_validator_balances(..).await.unwrap() on a transport error *)
BackfillPanic ==
    /\ job.pc = "backfill"
    /\ rows # <<>>
    /\ job' = [job EXCEPT !.pc = "panicked"]
    /\ UNCHANGED <<sse_task, call, db, tx, live, head, historic, channel, last_slot,
                   slots_queues, pc, slot, state_root, sync_data, candidate,
                   rb, deleted, reorgs, rows, progress, job_tracker>>

BackfillDone ==
    /\ job.pc = "backfill"
    /\ rows = <<>>
    /\ job' = [job EXCEPT !.pc = "done"]
    /\ UNCHANGED <<sse_task, call, db, tx, live, head, historic, channel, last_slot,
                   slots_queues, pc, slot, state_root, sync_data, candidate,
                   rb, deleted, reorgs, rows, progress, job_tracker>>

NextBackfill ==
    CallBackfillBalances \/ BackfillNext \/ BackfillPanic \/ BackfillDone
SpecBackfill == InitBackfill /\ [][NextBackfill]_vars

(* a stored slot the running backfill has to write a snapshot for, if it *)
(* has none: at or above from, on the granularity's boundary, known to   *)
(* the node                                                              *)
BackfillTarget(r) ==
    /\ r.slot >= job.from
    /\ CASE job.granularity = "Slot" -> TRUE
         [] job.granularity = "Epoch" -> r.slot % 32 = 0
         [] job.granularity = "Hour" ->
               r.slot = 0 \/ Hour(DateTime(r.slot)) # Hour(DateTime(r.slot - 1))
         [] job.granularity = "Day" ->
               r.slot = 0 \/ Day(DateTime(r.slot)) # Day(DateTime(r.slot - 1))
    /\ NodeGetValidatorBalancesByStateRoot(r.state_root) # None

Pending(r) == Cardinality({i \in 1..Len(rows) : rows[i] = r})

(* C28: backfill_balances(granularity, from) writes a balances snapshot    *)
(* for exactly the stored slots s >= from that have none, lie on the       *)
(* granularity's boundary and whose balances the node returns: while it    *)
(* runs each of them has its one snapshot or still waits once in the       *)
(* selected rows, and every snapshot it writes is the first one of such a  *)
(* slot.                                                                   *)
C28_BackfillWritesExactlyTheMissing ==
    /\ [](job.pc \in {"backfill", "done"} =>
            \A r \in db.states : BackfillTarget(r) =>
                LET n == Cardinality(RowsFor(db.balances, r.state_root))
                IN  IF job.pc = "done" THEN n = 1
                    ELSE n + Pending(r) = 1)
    /\ [][\A v \in db'.balances \ db.balances :
             \E r \in db.states :
                /\ r.state_root = v.state_root
                /\ BackfillTarget(r)
                /\ RowsFor(db.balances, r.state_root) = {}
                /\ v.timestamp = DateTime(r.slot)]_vars

C28_Witness ==
    /\ job.pc = "done"
    /\ job.granularity = "Hour"
    /\ job.from = 298
    /\ progress = 1
    /\ \A r \in db.states :
          (RowsFor(db.balances, r.state_root) # {}) <=> r.slot = 299

(* C29: at every point of a backfill run the progress counter equals the *)
(* number of balances snapshots written so far: each step of the run     *)
(* advances the counter by the number of snapshots it writes, so a       *)
(* selected slot without balances at the node does not advance it.       *)
C29_ProgressCountsWrittenSnapshots ==
    [][job.pc = "backfill" =>
          progress' - progress
             = Cardinality(db'.balances) - Cardinality(db.balances)]_vars

(* ------------------------- block hash heal job ------------------------- *)
FIRST_POST_MERGE_SLOT == 4700013

(* first slots of the windows the heal job is run on: around the first *)
(* post-merge slot, and around a slot divisible by 100                 *)
HealBases == {4700011, 4700098}

(* the node serves the blocks of its chain by their root *)
NodeGetBlockHashByBlockRoot(block_root) ==
    IF block_root = BlockRootAt(live, SlotOfRoot(block_root))
    THEN Some(BlockHashOf(block_root)) ELSE None

(* UPDATE beacon_blocks SET block_hash = $1 WHERE block_root = $2 *)
(* variant: without the WHERE clause *)
UpdateBlockHash_NoWhere(d, block_root, block_hash) ==
    [d EXCEPT !.blocks = {[b EXCEPT !.block_hash = Some(block_hash)] : b \in @}]
UpdateBlockHash(d, block_root, block_hash) ==
    [d EXCEPT !.blocks =
        {IF b.block_root = block_root
         THEN [b EXCEPT !.block_hash = Some(block_hash)] ELSE b : b \in @}]

(* beacon_blocks JOIN beacon_states ... WHERE slot >= $1 *)
BlockSlotRows(d, first_slot) ==
    {[block_root |-> b.block_root, slot |-> r.slot] :
        <<b, r>> \in {x \in d.blocks \X d.states :
                        x[1].state_root = x[2].state_root /\ x[2].slot >= first_slot}}

(* the orders a query without ORDER BY may return a set of rows in *)
Orders(set) ==
    {q \in [1..Cardinality(set) -> set] : \A r \in set : \E i \in DOMAIN q : q[i] = r}

(* the store of an earlier run, its slots base, base+1, ...; the blocks of *)
(* `legacy` were stored without their block hash                           *)
HealDb(chain, base, legacy) ==
    LET d == SyncedDb(chain, MaxSlot + 1)
        null == {BlockRootAt(chain, i) : i \in legacy}
    IN  [d EXCEPT !.states = {[r EXCEPT !.slot = @ + base] : r \in @},
                  !.blocks = {IF b.block_root \in null
                              THEN [b EXCEPT !.block_hash = None] ELSE b : b \in @}]

InitHeal ==
    /\ head = MaxSlot
    /\ \E stored \in Chains : \E base \in HealBases :
       \E legacy \in SUBSET Slots :
          /\ db = HealDb(stored, base, legacy)
          /\ live \in {c \in Chains : \A s \in 0..(MaxSlot - 1) : c[s] = stored[s]}
          /\ job_tracker \in {None, Some(base + 1)}
    /\ tx = None /\ historic = <<>> /\ channel = <<>> /\ last_slot = 0
    /\ slots_queues = <<>> /\ slot = 0 /\ state_root = None
    /\ sync_data = NoSyncData /\ candidate = 0 /\ rb = NoRollback
    /\ deleted = <<>> /\ reorgs = 0
    /\ job = NoJob /\ rows = <<>> /\ progress = 0
    /\ sse_task = "running" /\ call = NoCall
    /\ pc = "api"

CallHealBlockHashes ==
    /\ job.pc = "idle"
    /\ LET first_slot == IF job_tracker = None THEN FIRST_POST_MERGE_SLOT
                         ELSE CHOOSE s \in job_tracker : TRUE
       IN  /\ job' = [pc |-> "heal", granularity |-> "Slot", from |-> first_slot]
           /\ rows' \in Orders(BlockSlotRows(db, first_slot))
    /\ progress' = 0
    /\ UNCHANGED <<sse_task, call, db, tx, live, head, historic, channel, last_slot,
                   slots_queues, pc, slot, state_root, sync_data, candidate,
                   rb, deleted, reorgs, job_tracker>>

(* while let Some(row) = rows.try_next(): one row *)
HealNext ==
    /\ job.pc = "heal"
    /\ rows # <<>>
    /\ LET row == Head(rows)
           block == NodeGetBlockHashByBlockRoot(row.block_root)
       IN  /\ block # None
           /\ block # {None}
           /\ db' = UpdateBlockHash(db, row.block_root,
                       CHOOSE h \in UNION block : TRUE)
           /\ job_tracker' = IF row.slot % 100 = 0 THEN Some(row.slot)
                             ELSE job_tracker
    /\ progress' = progress + 1
    /\ rows' = Tail(rows)
    /\ UNCHANGED <<sse_task, call, tx, live, head, historic, channel, last_slot, slots_queues,
                   pc, slot, state_root, sync_data, candidate, rb, deleted,
                   reorgs, job>>

(* unwrap() on a transport error, expect() on a block the node does not *)
(* have or that carries no execution payload                            *)
HealPanic ==
    /\ job.pc = "heal"
    /\ rows # <<>>
    /\ job' = [job EXCEPT !.pc = "panicked"]
    /\ UNCHANGED <<sse_task, call, db, tx, live, head, historic, channel, last_slot,
                   slots_queues, pc, slot, state_root, sync_data, candidate,
                   rb, deleted, reorgs, rows, progress, job_tracker>>

HealDone ==
    /\ job.pc = "heal"
    /\ rows = <<>>
    /\ job' = [job EXCEPT !.pc = "done"]
    /\ UNCHANGED <<sse_task, call, db, tx, live, head, historic, channel, last_slot,
                   slots_queues, pc, slot, state_root, sync_data, candidate,
                   rb, deleted, reorgs, rows, progress, job_tracker>>

NextHeal == CallHealBlockHashes \/ HealNext \/ HealPanic \/ HealDone
SpecHeal == InitHeal /\ [][NextHeal]_vars

Div(a, b) == IF a >= 0 THEN a \div b ELSE -((-a) \div b)
Rem(a, b) == IF a >= 0 THEN a % b ELSE -((-a) % b)

(* `as i32`: the low bits, read as a signed integer *)
AsI32(x) == ((x + 2^(SlotBits - 1)) % 2^SlotBits) - 2^(SlotBits - 1)

I32 == (-(2^(SlotBits - 1)))..(2^(SlotBits - 1) - 1)

(* the DateTime<Utc> values around genesis, as Unix seconds *)
DateTimes ==
    (GENESIS_TIMESTAMP - SECONDS_PER_SLOT * 2^SlotBits)..(GENESIS_TIMESTAMP + SECONDS_PER_SLOT * 2^SlotBits)

FromDateTime(date_time) ==
    LET seconds_since_genesis == date_time - GENESIS_TIMESTAMP
    IN  IF Rem(seconds_since_genesis, SECONDS_PER_SLOT) # 0 THEN None
        ELSE Some(AsI32(Div(seconds_since_genesis, SECONDS_PER_SLOT)))

CallFromDateTime ==
    /\ \E date_time \in DateTimes :
          call' = [fn |-> "from_date_time", arg |-> date_time,
                   ret |-> FromDateTime(date_time)]
    /\ UNCHANGED <<db, tx, live, head, historic, channel, last_slot,
                   slots_queues, pc, slot, state_root, sync_data, candidate,
                   rb, deleted, reorgs, job, rows, progress, job_tracker,
                   sse_task>>

CallDateTime ==
    /\ \E s \in I32 :
          call' = [fn |-> "date_time", arg |-> s, ret |-> Some(DateTime(s))]
    /\ UNCHANGED <<db, tx, live, head, historic, channel, last_slot,
                   slots_queues, pc, slot, state_root, sync_data, candidate,
                   rb, deleted, reorgs, job, rows, progress, job_tracker,
                   sse_task>>

(* Slot::from_date_time(&s.date_time()) *)
CallFromDateTimeOfDateTime ==
    /\ \E s \in I32 :
          call' = [fn |-> "from_date_time(date_time)", arg |-> s,
                   ret |-> FromDateTime(DateTime(s))]
    /\ UNCHANGED <<db, tx, live, head, historic, channel, last_slot,
                   slots_queues, pc, slot, state_root, sync_data, candidate,
                   rb, deleted, reorgs, job, rows, progress, job_tracker,
                   sse_task>>

InitSlot ==
    /\ head = 0
    /\ live = [s \in Slots |-> IF s = 0 THEN 1 ELSE 0]
    /\ db = EmptyDb
    /\ InitLocals
    /\ pc = "api"
NextSlot == CallFromDateTime \/ CallDateTime \/ CallFromDateTimeOfDateTime
SpecSlot == InitSlot /\ [][NextSlot]_vars

(* C31: Slot::from_date_time(d) returns a slot s with s.date_time() = d   *)
(* exactly when d is a whole multiple of 12 seconds away from genesis and *)
(* None for every other d; Slot::from_date_time(s.date_time()) = s for    *)
(* every slot s >= 0.                                                     *)
C31_FromDateTimeInvertsDateTime ==
    /\ call.fn = "from_date_time" =>
          IF (call.arg - GENESIS_TIMESTAMP) % 12 = 0
          THEN \E s \in call.ret : GENESIS_TIMESTAMP + 12 * s = call.arg
          ELSE call.ret = None
    /\ (call.fn = "from_date_time(date_time)" /\ call.arg >= 0) =>
          call.ret = Some(call.arg)

(* --------------------------- end of the stream ------------------------- *)
(* `for event in client` comes to its end: the task returns and drops tx *)
SseTaskEnds ==
    /\ Running
    /\ sse_task = "running"
    /\ sse_task' = "ended"
    /\ UNCHANGED <<call, db, tx, live, head, historic, channel, last_slot,
                   slots_queues, pc, slot, state_root, sync_data, candidate,
                   rb, deleted, reorgs, job, rows, progress, job_tracker>>

(* slots_stream.next() returns None: the outer loop ends with Ok(()) *)
StreamEnd ==
    /\ pc = "stream"
    /\ historic = <<>>
    /\ channel = <<>>
    /\ sse_task = "ended"
    /\ pc' = "exited"
    /\ UNCHANGED <<sse_task, call, db, tx, live, head, historic, channel,
                   last_slot, slots_queues, slot, state_root, sync_data,
                   candidate, rb, deleted, reorgs, job, rows, progress,
                   job_tracker>>

LoopToEnd == Loop \/ StreamEnd
NextStreamEnd == Next \/ SseTaskEnds \/ StreamEnd
SpecStreamEnd == Init /\ [][NextStreamEnd]_vars /\ WF_vars(LoopToEnd)

(* C32: once the slot stream has ended (historic range consumed, SSE      *)
(* source terminated) the sync loop, unless it fails, works off every     *)
(* slot still in the stream and in its queue and then exits: it does not  *)
(* stay blocked on the stream and it drops no queued slot.                *)
C32_LoopExitsWhenStreamEnds ==
    ([]~Fatal) =>
       ((sse_task = "ended") ~>
           (pc = "exited" /\ slots_queues = <<>> /\ historic = <<>>
                          /\ channel = <<>>))

(* C33: when the state root the node reports for slot S during gathering  *)
(* differs from the root R the synchronizer was called with, the          *)
(* synchronizer fails before it opens the write transaction and writes no *)
(* row.                                                                   *)
C33_ReorgedDuringGatherWritesNothing ==
    [][(ReorgedDuringGather /\ pc' # "gather") =>
          (pc' = "failed" /\ tx = None /\ tx' = None /\ db' = db)]_vars

C33_Witness ==
    /\ pc = "failed"
    /\ tx = None
    /\ rb.kind = "sync"
    /\ slot >= 1
    /\ state_root # NodeGetStateRootBySlot(slot)
    /\ sync_data.validator_balances = None
    /\ StoredStateRoot(slot) = None

(* C34: at every point inside a rollback transaction, after each single   *)
(* delete, every block, balances and issuance row still in the tables has *)
(* the state_root of a state row still in the tables: the state rows go   *)
(* last.                                                                  *)
C34_RollbackKeepsRowsAnchoredAtEveryStep ==
    pc = "rollback" =>
        LET anchors == {r.state_root : r \in RbDb.states}
        IN  /\ \A b \in RbDb.blocks : b.state_root \in anchors
            /\ \A v \in RbDb.balances : v.state_root \in anchors
            /\ \A i \in RbDb.issuances : i.state_root \in anchors

C34_Witness ==
    /\ pc = "rollback"
    /\ rb.kind = "slots"
    /\ deleted = <<"blocks", "issuance">>
    /\ RbDb.blocks # db.blocks
    /\ RbDb.issuances # db.issuances
    /\ \E v \in RbDb.balances : \E r \in RbDb.states :
          r.state_root = v.state_root /\ r.slot >= rb.slot

(* C35: in every committed state of the tables every block row's          *)
(* parent_root is the genesis sentinel or the block_root of a stored      *)
(* block of a lower slot; rollback_slots leaves no block whose parent     *)
(* block it deleted.                                                      *)
C35_ParentIsGenesisOrStoredEarlierBlock ==
    \A b \in db.blocks :
        \/ b.parent_root = GENESIS_PARENT_ROOT
        \/ \E p \in db.blocks :
              /\ p.block_root = b.parent_root
              /\ \E sp \in SlotOfBlock(p) : \E sb \in SlotOfBlock(b) : sp < sb

C35_Witness ==
    /\ pc = "api"
    /\ rb.kind = "slots"
    /\ Len(deleted) = Len(RollbackSlotsOrder)
    /\ rb.slot \in 2..head
    /\ StoredStateRoot(rb.slot) = None
    /\ \E b \in db.blocks :
          /\ SlotOfBlock(b) = {rb.slot - 1}
          /\ b.parent_root # GENESIS_PARENT_ROOT
    /\ \E c \in db.blocks : c.parent_root = GENESIS_PARENT_ROOT

(* C36: in every committed state of the tables the sync loop reaches      *)
(* there is at most one state row per slot and at most one state row per  *)
(* state_root, also when the stream delivers a slot more than once.       *)
C36_OneStateRowPerSlotAndRoot ==
    /\ \A s \in Slots : Cardinality({r \in db.states : r.slot = s}) <= 1
    /\ \A r \in db.states :
          Cardinality({x \in db.states : x.state_root = r.state_root}) = 1

C36_Witness ==
    /\ pc = "find"
    /\ slot = 0
    /\ slots_queues = <<>>
    /\ historic = <<>>
    /\ db.states = {[state_root |-> StateRootAt(live, 0), slot |-> 0]}
    /\ db.blocks # {}

(* ------------------------ heal job, run again -------------------------- *)
(* the job is started again after a run that ended or was interrupted *)
HealRestart ==
    /\ job.pc \in {"panicked", "done"}
    /\ job' = NoJob
    /\ rows' = <<>>
    /\ progress' = 0
    /\ UNCHANGED <<sse_task, call, db, tx, live, head, historic, channel,
                   last_slot, slots_queues, pc, slot, state_root, sync_data,
                   candidate, rb, deleted, reorgs, job_tracker>>

(* the job has never run: no checkpoint is stored *)
InitHealFresh == InitHeal /\ job_tracker = None
NextHealResume == NextHeal \/ HealRestart
SpecHealResume == InitHealFresh /\ [][NextHealResume]_vars

(* C37: a heal run that resumed from a checkpoint c and came to its end   *)
(* leaves no block between the first post-merge slot and c with a NULL    *)
(* block_hash, as far as the node has the block and its hash: the rows    *)
(* the interrupted run had not processed are processed by the resumed     *)
(* run.                                                                   *)
C37_ResumedHealLeavesNothingBelowCheckpoint ==
    (job.pc = "done" /\ job_tracker # None /\ job_tracker = Some(job.from)) =>
        \A b \in db.blocks : \A s \in SlotOfBlock(b) :
            (/\ s >= FIRST_POST_MERGE_SLOT
             /\ s < job.from
             /\ NodeGetBlockHashByBlockRoot(b.block_root) \notin {None, {None}})
            => b.block_hash # None

(* C38: after any sequence of sync steps and rollbacks of the loop the    *)
(* stored slots are a range 0..last without a gap: no slot is stored      *)
(* while a lower slot is missing, also after a rollback for a             *)
(* re-delivered slot S that deleted the slots above S.                    *)
C38_StoredSlotsAreContiguous ==
    \A r \in db.states : \A s \in 0..r.slot : StoredStateRoot(s) # None

C38_Witness ==
    /\ pc = "requeue"
    /\ rb.caller = "loop"
    /\ slot >= 2
    /\ slot < last_slot
    /\ rb.slot \in 1..(slot - 1)
    /\ db.states # {}
    /\ \A r \in db.states : r.slot < rb.slot
    /\ \A s \in 0..(rb.slot - 1) : StoredStateRoot(s) # None

(* C39: building the slot stream succeeds for every start slot: when the  *)
(* start slot lies above the slot of the node's last header (the store    *)
(* has caught up with the head, or is ahead of it) the historic range is  *)
(* empty and the loop goes on with the live slots.                        *)
C39_StreamIsBuiltForEveryStartSlot ==
    [][(pc = "start" /\ pc' # "start") =>
          /\ pc' = "stream"
          /\ NextSlotToSync > NodeGetLastHeader.slot => historic' = <<>>]_vars

(* ------------- balances backfill next to the running sync loop --------- *)
(* the task of the first selected row: get_validator_balances answers *)
BackfillFetch ==
    /\ job.pc = "backfill"
    /\ rows # <<>>
    /\ job' = [job EXCEPT !.pc =
                  IF NodeGetValidatorBalancesByStateRoot(Head(rows).state_root) = None
                  THEN "backfill_none" ELSE "backfill_some"]
    /\ UNCHANGED <<sse_task, call, db, tx, live, head, historic, channel,
                   last_slot, slots_queues, pc, slot, state_root, sync_data,
                   candidate, rb, deleted, reorgs, rows, progress, job_tracker>>

(* the row is written through the pool: it is committed at once, and a *)
(* transaction that is open sees it in its next statement                *)
BackfillStore ==
    /\ job.pc = "backfill_some"
    /\ LET row == Head(rows)
           gwei == SumValidatorBalances(BalancesOf(row.state_root))
       IN  /\ db' = StoreValidatorsBalance(db, row.state_root, row.slot, gwei)
           /\ tx' = IF tx = None THEN None
                    ELSE Some(StoreValidatorsBalance(CHOOSE d \in tx : TRUE,
                                 row.state_root, row.slot, gwei))
    /\ progress' = progress + 1
    /\ rows' = Tail(rows)
    /\ job' = [job EXCEPT !.pc = "backfill"]
    /\ UNCHANGED <<sse_task, call, live, head, historic, channel, last_slot,
                   slots_queues, pc, slot, state_root, sync_data, candidate,
                   rb, deleted, reorgs, job_tracker>>

BackfillSkip ==
    /\ job.pc = "backfill_none"
    /\ progress' = progress + 1
    /\ rows' = Tail(rows)
    /\ job' = [job EXCEPT !.pc = "backfill"]
    /\ UNCHANGED <<sse_task, call, db, tx, live, head, historic, channel,
                   last_slot, slots_queues, pc, slot, state_root, sync_data,
                   candidate, rb, deleted, reorgs, job_tracker>>

(* the store of an earlier run of the loop, behind the head, in which *)
(* the slots of `skipped` were synced beyond the lag limit, without   *)
(* balances                                                            *)
InitBackfillWithLoop ==
    /\ head \in 1..2
    /\ live \in {c \in Chains : \A s \in Slots : s > head => c[s] = 0}
    /\ \E n \in 0..head : \E skipped \in {k \in SUBSET (0..(n - 1)) : n > 0 => k # {}} :
          LET d == SyncedDb(live, n)
              no == {StateRootAt(live, i) : i \in skipped}
          IN  db = [d EXCEPT !.balances = {v \in @ : v.state_root \notin no},
                             !.issuances = {i \in @ : i.state_root \notin no}]
    /\ InitLocals
    /\ pc = "start"

NextBackfillWithLoop ==
    \/ Loop \/ DbError \/ NewSlot \/ Reorg
    \/ CallBackfillBalances \/ BackfillFetch \/ BackfillStore \/ BackfillSkip
    \/ BackfillPanic \/ BackfillDone

SpecBackfillWithLoop == InitBackfillWithLoop /\ [][NextBackfillWithLoop]_vars

(* C40: while a balances backfill runs next to the sync loop every        *)
(* balances row in the committed tables has the state_root of a stored    *)
(* state row, also when a rollback deletes a state between the backfill's *)
(* selection and its write, and no state_root has two balances rows.      *)
C40_BackfillNextToLoopKeepsBalancesAnchored ==
    /\ \A v \in db.balances : v.state_root \in StoredRoots
    /\ \A v \in db.balances : Cardinality(RowsFor(db.balances, v.state_root)) = 1

====
